---- MODULE Spec2Model ----
(***************************************************************************)
(* Pillar Digital Bank (src/main.py): the account ledger, the transaction  *)
(* log, the savings plans and the interest pass of DatabaseManager,        *)
(* together with the chat handlers that drive them.                        *)
(*                                                                         *)
(* Money is held in cents (DECIMAL(15,2)), daily rates in 1/10000ths       *)
(* (DECIMAL(5,4)), dates as day numbers.  Both stores of DatabaseManager   *)
(* are modelled: is_connected = TRUE is the relational store, FALSE the    *)
(* in-memory dictionaries of _init_memory_storage.                         *)
(*                                                                         *)
(* The bot processes one update at a time and no DatabaseManager method    *)
(* awaits, so every method and every handler body is one step.             *)
(***************************************************************************)
EXTENDS Integers, Sequences, FiniteSets, TLC

VARIABLES is_connected, users, accounts, transactions, savings_plans,
          daily_interest_logs, audit_logs, referrals, user_data,
          withdraw_conv, today, last

vars == <<is_connected, users, accounts, transactions, savings_plans,
          daily_interest_logs, audit_logs, referrals, user_data,
          withdraw_conv, today, last>>

----------------------------------------------------------------------------
(* Bounds of the model *)

MaxTx == 2
MaxPlans == 2
MaxAudit == 3
MaxDay == 1
MaxLogs == 2
MaxBalance == 103000
LastDay == 8

(* Program constants *)

ADMIN_ID == 99
REGISTRATION_BONUS == 500
REFERRAL_BONUS == 100
MAX_AMOUNT == 100000000

NULL == 0 - 1

(* Telegram ids that register.  Every statement of the store is keyed by    *)
(* user_telegram_id, so one account shows what happens to any account       *)
Users == {1}

(* A telegram id that registers as well and whose referral code the users   *)
(* may have given                                                           *)
Referrers == {2}

(* Telegram ids that send updates: the registered users' ids and the admin *)
Senders == Users \cup {ADMIN_ID}

(* Amounts a caller passes to the ledger: already validated, in cents *)
Amounts == {100000}

(* Amounts a user may type into a conversation, valid or not *)
AmountInputs == Amounts \cup {0, 5000}

(* ... with a negative amount, an amount over the cap of validate_amount    *)
(* and an amount between the minimums of templates 1 and 2                  *)
TypedAmounts == AmountInputs \cup {0 - 100, 50000, MAX_AMOUNT + 1}

(* Amounts update_balance may be handed by a caller that did not validate   *)
(* them                                                                     *)
CreditAmounts == Amounts \cup {0, 0 - 100000}

Notes == {"n"}

TxStatuses == {"APPROVED", "REJECTED"}

----------------------------------------------------------------------------
(* Pure helpers *)

(* SecurityUtils.validate_amount: positive and at most 1,000,000.00 *)
validate_amount(a) == a > 0 /\ a <= MAX_AMOUNT

(* The seeded plan templates: id -> terms in cents, days, 1/10000ths *)
get_savings_templates ==
    [id \in 1..5 |->
        CASE id = 1 -> [id |-> 1, duration_days |-> 1,  min_amount |-> 10000,
                        daily_rate |-> 100, is_locked |-> FALSE]
          [] id = 2 -> [id |-> 2, duration_days |-> 7,  min_amount |-> 100000,
                        daily_rate |-> 120, is_locked |-> TRUE]
          [] id = 3 -> [id |-> 3, duration_days |-> 15, min_amount |-> 500000,
                        daily_rate |-> 140, is_locked |-> TRUE]
          [] id = 4 -> [id |-> 4, duration_days |-> 30, min_amount |-> 1000000,
                        daily_rate |-> 160, is_locked |-> TRUE]
          [] OTHER  -> [id |-> 5, duration_days |-> 90, min_amount |-> 2500000,
                        daily_rate |-> 170, is_locked |-> TRUE]]

NewAccount ==
    [balance |-> 0, locked_balance |-> 0, available_balance |-> 0,
     total_deposits |-> 0, total_withdrawals |-> 0,
     total_interest_earned |-> 0]

NoData == [selected_plan |-> NULL, savings_amount |-> NULL, state |-> "END"]

(* The withdrawal conversation of a user before it is entered: its state   *)
(* in withdraw_conv and its keys of context.user_data                       *)
NoWithdraw ==
    [state |-> "END", withdraw_amount |-> NULL, withdraw_method |-> NULL]

(* The pages a user opens: they are recorded in `last` whatever they do *)
Pages == {"show_user_dashboard", "my_savings"}

(* What `last` keeps of a request.  A request that succeeded and wrote to   *)
(* the store is visible in the tables and is recorded as "ok" only; a       *)
(* request that was refused or raised, and a page, is recorded with its     *)
(* name and argument, since the tables do not show that it happened.        *)
Op(name, u, arg, ok) ==
    IF ok /\ name \notin Pages
    THEN [op |-> "ok", user |-> 0, arg |-> 0, ok |-> TRUE]
    ELSE [op |-> name, user |-> u, arg |-> arg, ok |-> ok]

----------------------------------------------------------------------------
Init ==
    /\ is_connected \in BOOLEAN
    /\ users = <<>>
    /\ accounts = <<>>
    /\ transactions = <<>>
    /\ savings_plans = <<>>
    /\ daily_interest_logs = <<>>
    /\ audit_logs = <<>>
    /\ referrals = <<>>
    /\ user_data = [u \in Users |-> NoData]
    /\ withdraw_conv = [u \in Users |-> NoWithdraw]
    /\ today = 0
    /\ last = Op("ok", 0, 0, TRUE)

----------------------------------------------------------------------------
(* Ledger: DatabaseManager.update_balance / lock_funds / unlock_funds.      *)
(* In the relational store each is ONE conditional UPDATE followed by a     *)
(* commit; in the memory store each is a check and an assignment with no    *)
(* await between them.  The result is rowcount > 0.                         *)

(* Mutant: the withdrawal UPDATE without its balance condition *)
update_balance_where_unguarded(acct, amount, is_deposit) == TRUE

(* Mutant: the withdrawal UPDATE conditioned on the total balance *)
update_balance_where_total(acct, amount, is_deposit) ==
    is_deposit \/ acct.balance >= amount

(* The WHERE clause of update_balance (is_deposit: no balance condition) *)
update_balance_where(acct, amount, is_deposit) ==
    is_deposit \/ acct.available_balance >= amount

(* The SET clause of update_balance *)
update_balance_set(acct, amount, is_deposit) ==
    IF is_deposit
    THEN [acct EXCEPT !.balance = @ + amount,
                      !.available_balance = @ + amount,
                      !.total_deposits = @ + amount]
    ELSE [acct EXCEPT !.balance = @ - amount,
                      !.available_balance = @ - amount,
                      !.total_withdrawals = @ + amount]

lock_funds_where(acct, amount) == acct.available_balance >= amount

(* Mutant: a lock that also takes the amount off the total balance *)
lock_funds_set_debits(acct, amount) ==
    [acct EXCEPT !.available_balance = @ - amount,
                 !.locked_balance = @ + amount,
                 !.balance = @ - amount]

lock_funds_set(acct, amount) ==
    [acct EXCEPT !.available_balance = @ - amount,
                 !.locked_balance = @ + amount]

(* Mutant: the unlock UPDATE without its locked_balance condition *)
unlock_funds_where_unguarded(acct, amount) == TRUE

unlock_funds_where(acct, amount) == acct.locked_balance >= amount

unlock_funds_set(acct, amount) ==
    [acct EXCEPT !.locked_balance = @ - amount,
                 !.available_balance = @ + amount]

(* add_registration_bonus: balance and available_balance only *)
add_registration_bonus_set(acct) ==
    [acct EXCEPT !.balance = @ + REGISTRATION_BONUS,
                 !.available_balance = @ + REGISTRATION_BONUS]

(* The three methods as functions of the accounts table: <<ok, table>> *)
update_balance(accts, u, amount, is_deposit) ==
    IF u \in DOMAIN accts /\ update_balance_where(accts[u], amount, is_deposit)
    THEN <<TRUE, [accts EXCEPT ![u] = update_balance_set(@, amount, is_deposit)]>>
    ELSE <<FALSE, accts>>

lock_funds(accts, u, amount) ==
    IF u \in DOMAIN accts /\ lock_funds_where(accts[u], amount)
    THEN <<TRUE, [accts EXCEPT ![u] = lock_funds_set(@, amount)]>>
    ELSE <<FALSE, accts>>

unlock_funds(accts, u, amount) ==
    IF u \in DOMAIN accts /\ unlock_funds_where(accts[u], amount)
    THEN <<TRUE, [accts EXCEPT ![u] = unlock_funds_set(@, amount)]>>
    ELSE <<FALSE, accts>>

add_registration_bonus(accts, u) ==
    IF u \in DOMAIN accts
    THEN <<TRUE, [accts EXCEPT ![u] = add_registration_bonus_set(@)]>>
    ELSE <<FALSE, accts>>

(* add_referral_bonus: balance and available_balance only, committed by the *)
(* method itself (line 625)                                                 *)
add_referral_bonus_set(acct) ==
    [acct EXCEPT !.balance = @ + REFERRAL_BONUS,
                 !.available_balance = @ + REFERRAL_BONUS]

add_referral_bonus(accts, r) ==
    IF r \in DOMAIN accts
    THEN <<TRUE, [accts EXCEPT ![r] = add_referral_bonus_set(@)]>>
    ELSE <<FALSE, accts>>

(* Model bound on credits: what an account has ever received stays <=       *)
(* MaxBalance, and a credit of a negative amount leaves balance >=          *)
(* -MaxBalance                                                              *)
RoomFor(u, amount) ==
    u \in DOMAIN accounts =>
        /\ accounts[u].balance + accounts[u].total_withdrawals + amount <= MaxBalance
        /\ accounts[u].balance + amount >= 0 - MaxBalance

(* A deposit credit: update_balance(u, a, is_deposit=True) *)
Credit(u, a) ==
    /\ RoomFor(u, a)
    /\ LET r == update_balance(accounts, u, a, TRUE)
       IN /\ accounts' = r[2]
          /\ last' = Op("credit", u, a, r[1])
    /\ UNCHANGED <<is_connected, referrals, withdraw_conv, users, transactions, savings_plans,
                   daily_interest_logs, audit_logs, user_data, today>>

(* A withdrawal debit: update_balance(u, a, is_deposit=False) *)
Debit(u, a) ==
    /\ LET r == update_balance(accounts, u, a, FALSE)
       IN /\ accounts' = r[2]
          /\ last' = Op("debit", u, a, r[1])
    /\ UNCHANGED <<is_connected, referrals, withdraw_conv, users, transactions, savings_plans,
                   daily_interest_logs, audit_logs, user_data, today>>

LockFunds(u, a) ==
    /\ LET r == lock_funds(accounts, u, a)
       IN /\ accounts' = r[2]
          /\ last' = Op("lock", u, a, r[1])
    /\ UNCHANGED <<is_connected, referrals, withdraw_conv, users, transactions, savings_plans,
                   daily_interest_logs, audit_logs, user_data, today>>

UnlockFunds(u, a) ==
    /\ LET r == unlock_funds(accounts, u, a)
       IN /\ accounts' = r[2]
          /\ last' = Op("unlock", u, a, r[1])
    /\ UNCHANGED <<is_connected, referrals, withdraw_conv, users, transactions, savings_plans,
                   daily_interest_logs, audit_logs, user_data, today>>

----------------------------------------------------------------------------
(* Registration and the admin's decision on a user *)

(* Mutant: the new row is put in front of the rows already there *)
log_audit_prepending(logs, action, actor, actor_id, target_user) ==
    <<[action |-> action, actor |-> actor, actor_id |-> actor_id,
       target_user |-> target_user]>> \o logs

(* DatabaseManager.log_audit: one appended row *)
log_audit(logs, action, actor, actor_id, target_user) ==
    Append(logs, [action |-> action, actor |-> actor, actor_id |-> actor_id,
                  target_user |-> target_user])

(* The codes SecurityUtils.generate_otp draws: six random digits.  One     *)
(* code stands for the draw; what matters is whether a typed code equals it *)
generate_otp == {123456}

(* What a user may type after /verify: the code sent, another code of six   *)
(* digits, and a text that is not six digits                                *)
OtpInputs == generate_otp \cup {654321, 12345}

(* The users row create_user writes *)
NewUser ==
    [status |-> "PENDING", is_email_verified |-> FALSE,
     otp_code |-> NULL, otp_expired |-> FALSE]

(* DatabaseManager.save_otp: the code and an expiry OTP_EXPIRY_MINUTES      *)
(* ahead; otp_expired says whether that moment has passed                   *)
save_otp(user, otp) == [user EXCEPT !.otp_code = otp, !.otp_expired = FALSE]

(* Mutant: a verification that leaves the code in place *)
verify_otp_set_keeping_code(user) == [user EXCEPT !.is_email_verified = TRUE]

(* DatabaseManager.verify_otp, the rows it writes on success *)
verify_otp_set(user) ==
    [user EXCEPT !.is_email_verified = TRUE, !.otp_code = NULL,
                 !.otp_expired = FALSE]

(* DatabaseManager.verify_otp, its result.  The relational store returns    *)
(* otp_expiry (TIMESTAMP WITH TIME ZONE, line 154) as an aware datetime,    *)
(* and line 491 compares it with the naive datetime.now(): TypeError,       *)
(* caught at line 506, so a matching code is answered with failure there.   *)
verify_otp_result(us, u, otp) ==
    CASE u \notin DOMAIN us -> "User not found"
      [] us[u].otp_code = NULL -> "No OTP found"
      [] us[u].otp_code # otp -> "Invalid OTP"
      [] is_connected -> "Error"
      [] us[u].otp_expired -> "OTP expired"
      [] OTHER -> "Email verified"

verify_otp(us, u, otp) ==
    IF verify_otp_result(us, u, otp) = "Email verified"
    THEN <<TRUE, [us EXCEPT ![u] = verify_otp_set(@)]>>
    ELSE <<FALSE, us>>

(* /verify <code>: the text must be six digits (lines 1563-1571), then      *)
(* verify_otp decides; a success sends the admin the registration notice    *)
VerifyOtpCommand(u, otp) ==
    /\ LET r == IF otp >= 100000 /\ otp <= 999999
                THEN verify_otp(users, u, otp) ELSE <<FALSE, users>>
       IN /\ users' = r[2]
          /\ last' = Op("verify", u, otp, r[1])
    /\ UNCHANGED <<is_connected, referrals, withdraw_conv, accounts, transactions, savings_plans,
                   daily_interest_logs, audit_logs, user_data, today>>

(* OTP_EXPIRY_MINUTES pass after a code was saved *)
OtpExpires(u) ==
    /\ u \in DOMAIN users
    /\ users[u].otp_code # NULL /\ ~users[u].otp_expired
    /\ users' = [users EXCEPT ![u].otp_expired = TRUE]
    /\ last' = Op("tick", 0, 0, TRUE)
    /\ UNCHANGED <<is_connected, referrals, withdraw_conv, accounts, transactions, savings_plans,
                   daily_interest_logs, audit_logs, user_data, today>>

(* register_email -> DatabaseManager.create_user: the users row (PENDING)   *)
(* and the zero accounts row are written in one commit; a second           *)
(* create_user for the same id fails (primary key / `user_id in users`).    *)
(* Then the handler draws a code and saves it (lines 1526-1527).            *)
RegisterEmail(u) ==
    /\ IF u \in DOMAIN users
       THEN /\ UNCHANGED <<users, accounts>>
            /\ last' = Op("create_user", u, 0, FALSE)
       ELSE /\ \E otp \in generate_otp :
                 users' = users @@ (u :> save_otp(NewUser, otp))
            /\ accounts' = accounts @@ (u :> NewAccount)
            /\ last' = Op("create_user", u, 0, TRUE)
    /\ UNCHANGED <<is_connected, referrals, withdraw_conv, transactions, savings_plans,
                   daily_interest_logs, audit_logs, user_data, today>>

(* DatabaseManager.update_user_status: no condition on the current status *)
update_user_status(us, u, status) ==
    IF u \in DOMAIN us
    THEN <<TRUE, [us EXCEPT ![u].status = status]>>
    ELSE <<FALSE, us>>

(* approve_user: status, then the registration bonus, then the audit row.   *)
(* process_referral_bonus (line 1680) runs only for a user with            *)
(* referred_by set and pays only from a referrals row; no handler calls     *)
(* add_referral, so the table is empty and the call credits nothing.        *)
approve_user(u) ==
    IF u \notin DOMAIN users
    THEN /\ UNCHANGED <<users, accounts, audit_logs>>
         /\ last' = Op("approve_user", u, 0, FALSE)
    ELSE /\ RoomFor(u, REGISTRATION_BONUS)
         /\ Len(audit_logs) < MaxAudit
         /\ users' = update_user_status(users, u, "APPROVED")[2]
         /\ accounts' = add_registration_bonus(accounts, u)[2]
         /\ audit_logs' = log_audit(audit_logs, "USER_APPROVED", "ADMIN", ADMIN_ID, u)
         /\ last' = Op("approve_user", u, 0, TRUE)

reject_user(u) ==
    IF u \notin DOMAIN users
    THEN /\ UNCHANGED <<users, accounts, audit_logs>>
         /\ last' = Op("reject_user", u, 0, FALSE)
    ELSE /\ Len(audit_logs) < MaxAudit
         /\ users' = update_user_status(users, u, "REJECTED")[2]
         /\ audit_logs' = log_audit(audit_logs, "USER_REJECTED", "ADMIN", ADMIN_ID, u)
         /\ UNCHANGED accounts
         /\ last' = Op("reject_user", u, 0, TRUE)

----------------------------------------------------------------------------
(* Referrals: DatabaseManager.add_referral and process_referral_bonus.  A   *)
(* row is keyed by <<referrer_id, referred_id>>, as the memory store keys   *)
(* it; the relational table allows one row per referred_id (UNIQUE) and     *)
(* only ids of the users table (REFERENCES).                                *)

ReferralsOf(u) == {k \in DOMAIN referrals : k[2] = u}

UnpaidReferralsOf(u) == {k \in ReferralsOf(u) : ~referrals[k].bonus_paid}

(* add_referral: the memory store assigns the row, new or not; the          *)
(* relational INSERT fails on the UNIQUE and REFERENCES constraints         *)
AddReferral(r, u) ==
    /\ LET ok == \/ ~is_connected
                 \/ /\ r \in DOMAIN users /\ u \in DOMAIN users
                    /\ ReferralsOf(u) = {}
       IN /\ referrals' =
               IF ok
               THEN [k \in DOMAIN referrals \cup {<<r, u>>} |->
                        IF k = <<r, u>> THEN [bonus_paid |-> FALSE] ELSE referrals[k]]
               ELSE referrals
          /\ last' = Op("add_referral", u, r, ok)
    /\ UNCHANGED <<is_connected, withdraw_conv, users, accounts, transactions, savings_plans,
                   daily_interest_logs, audit_logs, user_data, today>>

(* process_referral_bonus for the referred user u.  The rows it may pay are *)
(* the unpaid rows of u whose referrer has an account.  In the relational   *)
(* store add_referral_bonus commits the credit before the UPDATE of         *)
(* bonus_paid is executed; update_fails is that UPDATE raising (lines       *)
(* 1034-1047: rollback, return False).  The memory store sets the flag      *)
(* with an assignment that cannot fail.                                     *)
ProcessReferralBonus(u, update_fails) ==
    /\ update_fails => is_connected
    /\ LET payable == {k \in UnpaidReferralsOf(u) : k[1] \in DOMAIN accounts}
       IN IF payable = {}
          THEN /\ UNCHANGED <<accounts, referrals>>
               /\ last' = Op("process_referral_bonus", u, 0, FALSE)
          ELSE \E k \in payable :
                  /\ RoomFor(k[1], REFERRAL_BONUS)
                  /\ accounts' = add_referral_bonus(accounts, k[1])[2]
                  /\ referrals' =
                       IF update_fails THEN referrals
                       ELSE [j \in DOMAIN referrals |->
                               IF (is_connected /\ j[2] = u) \/ j = k
                               THEN [bonus_paid |-> TRUE] ELSE referrals[j]]
                  /\ last' = Op("process_referral_bonus", u, k[1], ~update_fails)
    /\ UNCHANGED <<is_connected, withdraw_conv, users, transactions, savings_plans,
                   daily_interest_logs, audit_logs, user_data, today>>

----------------------------------------------------------------------------
(* Transactions *)

(* DatabaseManager.create_transaction: a PENDING row; the transaction_id is *)
(* the row's position in the table                                          *)
create_transaction(txs, u, tx_type, amount) ==
    Append(txs, [user_telegram_id |-> u, type |-> tx_type, amount |-> amount,
                 status |-> "PENDING", reviewed_by |-> NULL, admin_note |-> ""])

(* DatabaseManager.update_transaction_status: the UPDATE's only condition   *)
(* is the transaction_id                                                    *)
update_transaction_status(txs, tx, status, admin_id, note) ==
    IF tx \in DOMAIN txs
    THEN <<TRUE, [txs EXCEPT ![tx].status = status,
                             ![tx].reviewed_by = admin_id,
                             ![tx].admin_note = note]>>
    ELSE <<FALSE, txs>>

(* deposit_amount (the deposit conversation is entered by add_funds only    *)
(* for an APPROVED user): validate, create the DEPOSIT row, audit it        *)
DepositAmount(u, a) ==
    /\ u \in DOMAIN users /\ users[u].status = "APPROVED"
    /\ IF validate_amount(a)
       THEN /\ Len(transactions) < MaxTx
            /\ Len(audit_logs) < MaxAudit
            /\ transactions' = create_transaction(transactions, u, "DEPOSIT", a)
            /\ audit_logs' = log_audit(audit_logs, "DEPOSIT_REQUESTED", "USER", u, NULL)
            /\ last' = Op("deposit_amount", u, a, TRUE)
       ELSE /\ UNCHANGED <<transactions, audit_logs>>
            /\ last' = Op("deposit_amount", u, a, FALSE)
    /\ UNCHANGED <<is_connected, referrals, withdraw_conv, users, accounts, savings_plans,
                   daily_interest_logs, user_data, today>>

(* Mutant: a withdrawal request that reserves its amount *)
CreateWithdrawReserving(u, a) ==
    /\ u \in DOMAIN users
    /\ Len(transactions) < MaxTx
    /\ transactions' = create_transaction(transactions, u, "WITHDRAW", a)
    /\ accounts' = lock_funds(accounts, u, a)[2]
    /\ last' = Op("create_transaction", u, a, TRUE)
    /\ UNCHANGED <<is_connected, referrals, withdraw_conv, users, savings_plans,
                   daily_interest_logs, audit_logs, user_data, today>>

(* create_transaction called for a withdrawal, as withdraw_address does     *)
(* after its conversation (lines 2542-2549)                                 *)
CreateWithdraw(u, a) ==
    /\ u \in DOMAIN users
    /\ Len(transactions) < MaxTx
    /\ transactions' = create_transaction(transactions, u, "WITHDRAW", a)
    /\ last' = Op("create_transaction", u, a, TRUE)
    /\ UNCHANGED <<is_connected, referrals, withdraw_conv, users, accounts, savings_plans,
                   daily_interest_logs, audit_logs, user_data, today>>

(* update_transaction_status called on its own *)
UpdateTransactionStatus(tx, status, note) ==
    /\ LET r == update_transaction_status(transactions, tx, status, ADMIN_ID, note)
       IN /\ transactions' = r[2]
          /\ last' = Op("update_transaction_status", 0, tx, r[1])
    /\ UNCHANGED <<is_connected, referrals, withdraw_conv, users, accounts, savings_plans,
                   daily_interest_logs, audit_logs, user_data, today>>

----------------------------------------------------------------------------
(* admin_callback: the only handler of the admin's inline buttons.          *)
(* The payloads the bot itself puts on those buttons are                    *)
(*   admin_approve_<user>, admin_reject_<user>, admin_view_<user>           *)
(*   admin_confirm_deposit_<tx>, admin_reject_deposit_<tx>                  *)
(*   admin_approve_withdraw_<tx>, admin_reject_withdraw_<tx>                *)

UserPayloads == {"approve", "reject", "view"}
TxPayloads == {"confirm_deposit", "reject_deposit",
               "approve_withdraw", "reject_withdraw"}

(* The buttons notify_admin_deposit and notify_admin_withdrawal put under   *)
(* the admin's notice of a new request                                      *)
TxButtons(tx) ==
    CASE tx.type = "DEPOSIT" -> {"confirm_deposit", "reject_deposit"}
      [] tx.type = "WITHDRAW" -> {"approve_withdraw", "reject_withdraw"}
      [] OTHER -> {}

(* Mutant: is_admin answers yes for every sender *)
is_admin_for_anyone(user_id) == TRUE

(* The sender is the admin: line 1239 *)
is_admin(user_id) == user_id = ADMIN_ID

(* Which branch of admin_callback a payload takes: the prefix tests of      *)
(* lines 1654-1664.  For a transaction payload the text after the prefix    *)
(* is "deposit_TX.." or "withdraw_TX..", so int() raises ValueError; and    *)
(* admin_confirm_deposit_ matches no prefix at all.                         *)
admin_branch(kind) ==
    CASE kind = "approve" -> "approve_user"
      [] kind = "reject" -> "reject_user"
      [] kind = "view" -> "view_user_details"
      [] kind = "confirm_deposit" -> "none"
      [] kind = "reject_deposit" -> "ValueError"
      [] kind = "approve_withdraw" -> "ValueError"
      [] kind = "reject_withdraw" -> "ValueError"

AdminCallback(sender, kind, target) ==
    /\ LET b == admin_branch(kind)
       IN IF ~is_admin(sender)
          THEN /\ UNCHANGED <<users, accounts, audit_logs>>
               /\ last' = Op("unauthorized", sender, 0, FALSE)
          ELSE CASE b = "approve_user" -> approve_user(target)
                 [] b = "reject_user" -> reject_user(target)
                 [] OTHER ->
                      /\ UNCHANGED <<users, accounts, audit_logs>>
                      /\ last' = Op(kind, 0, target, FALSE)
    /\ UNCHANGED <<is_connected, referrals, withdraw_conv, transactions, savings_plans,
                   daily_interest_logs, user_data, today>>

----------------------------------------------------------------------------
(* The withdrawal conversation: withdraw -> withdraw_amount ->              *)
(* withdraw_otp -> withdraw_method_callback -> withdraw_address.  A handler *)
(* that raises leaves the conversation in the state it was in.              *)

(* What the method keyboard sends: method_cancel or a currency *)
WithdrawMethods == {"CANCEL", "BTC"}

(* withdraw: the entry point; a user who is not APPROVED is turned away and *)
(* the conversation is not entered                                          *)
Withdraw(u) ==
    /\ withdraw_conv[u].state = "END"
    /\ IF u \in DOMAIN users /\ users[u].status = "APPROVED"
       THEN /\ withdraw_conv' = [withdraw_conv EXCEPT ![u].state = "WITHDRAW_AMOUNT"]
            /\ last' = Op("withdraw", u, 0, TRUE)
       ELSE /\ UNCHANGED withdraw_conv
            /\ last' = Op("withdraw", u, 0, FALSE)
    /\ UNCHANGED <<is_connected, referrals, users, accounts, transactions,
                   savings_plans, daily_interest_logs, audit_logs, user_data,
                   today>>

(* withdraw_amount: an invalid amount and an amount above available_balance *)
(* ask again.  Otherwise the amount is kept and a new code is saved over    *)
(* the user's otp_code (lines 2464-2468); line 2470 then reads `user`, a    *)
(* name the function never binds, and raises NameError: no code is mailed   *)
(* and WITHDRAW_OTP is not returned.                                        *)
WithdrawAmount(u, a) ==
    /\ withdraw_conv[u].state = "WITHDRAW_AMOUNT"
    /\ IF ~validate_amount(a)
       THEN /\ UNCHANGED <<users, withdraw_conv>>
            /\ last' = Op("withdraw_amount", u, a, FALSE)
       ELSE IF accounts[u].available_balance < a
       THEN /\ UNCHANGED <<users, withdraw_conv>>
            /\ last' = Op("Insufficient Balance", u, a, FALSE)
       ELSE /\ withdraw_conv' = [withdraw_conv EXCEPT ![u].withdraw_amount = a]
            /\ \E otp \in generate_otp :
                  users' = [users EXCEPT ![u] = save_otp(users[u], otp)]
            /\ last' = Op("NameError", u, a, FALSE)
    /\ UNCHANGED <<is_connected, referrals, accounts, transactions,
                   savings_plans, daily_interest_logs, audit_logs, user_data,
                   today>>

(* withdraw_otp: its first statement reads `self` (line 2486), a name a     *)
(* module-level function does not have, and raises NameError whatever was   *)
(* typed                                                                    *)
WithdrawOtp(u, otp) ==
    /\ withdraw_conv[u].state = "WITHDRAW_OTP"
    /\ last' = Op("NameError", u, otp, FALSE)
    /\ UNCHANGED <<is_connected, referrals, users, accounts, transactions,
                   savings_plans, daily_interest_logs, audit_logs, user_data,
                   withdraw_conv, today>>

(* withdraw_method_callback: method_cancel ends the conversation, any other *)
(* button is kept as the method                                             *)
WithdrawMethodCallback(u, m) ==
    /\ withdraw_conv[u].state = "WITHDRAW_METHOD"
    /\ IF m = "CANCEL"
       THEN /\ withdraw_conv' = [withdraw_conv EXCEPT ![u].state = "END"]
            /\ last' = Op("method_cancel", u, 0, FALSE)
       ELSE /\ withdraw_conv' = [withdraw_conv EXCEPT
                                    ![u].withdraw_method = m,
                                    ![u].state = "WITHDRAW_ADDRESS"]
            /\ last' = Op("withdraw_method", u, 0, TRUE)
    /\ UNCHANGED <<is_connected, referrals, users, accounts, transactions,
                   savings_plans, daily_interest_logs, audit_logs, user_data,
                   today>>

(* withdraw_address: an address shorter than 10 characters asks again;      *)
(* otherwise the WITHDRAW row is created with the kept amount, an audit row *)
(* is written and the conversation ends                                     *)
WithdrawAddress(u, long_enough) ==
    /\ withdraw_conv[u].state = "WITHDRAW_ADDRESS"
    /\ IF ~long_enough
       THEN /\ UNCHANGED <<transactions, audit_logs, withdraw_conv>>
            /\ last' = Op("Invalid address", u, 0, FALSE)
       ELSE /\ Len(transactions) < MaxTx
            /\ Len(audit_logs) < MaxAudit
            /\ transactions' = create_transaction(transactions, u, "WITHDRAW",
                                                  withdraw_conv[u].withdraw_amount)
            /\ audit_logs' = log_audit(audit_logs, "WITHDRAWAL_REQUESTED",
                                       "USER", u, NULL)
            /\ withdraw_conv' = [withdraw_conv EXCEPT ![u] = NoWithdraw]
            /\ last' = Op("withdraw_address", u, 0, TRUE)
    /\ UNCHANGED <<is_connected, referrals, users, accounts, savings_plans,
                   daily_interest_logs, user_data, today>>

(* cancel, as the fallback of the withdrawal conversation: user_data is     *)
(* cleared and the conversation ends.  It is taken when the savings         *)
(* conversation, registered before this one, is not the one open.           *)
WithdrawCancel(u) ==
    /\ withdraw_conv[u].state # "END"
    /\ user_data[u].state = "END"
    /\ withdraw_conv' = [withdraw_conv EXCEPT ![u] = NoWithdraw]
    /\ user_data' = [user_data EXCEPT ![u] = NoData]
    /\ last' = Op("cancel", u, 0, FALSE)
    /\ UNCHANGED <<is_connected, referrals, users, accounts, transactions,
                   savings_plans, daily_interest_logs, audit_logs, today>>

----------------------------------------------------------------------------
(* Savings plans: the conversation plan_callback -> savings_amount ->       *)
(* savings_confirm, with its per-user context.user_data                     *)

(* The templates a user picks from in the model *)
PlanChoices == {1, 2}

(* DatabaseManager.create_savings_plan: start_date is today, end_date is    *)
(* today + duration_days, the plan is ACTIVE, last_interest_calc and        *)
(* interest_earned are left at their defaults                               *)
create_savings_plan(plans, u, t, principal_amount, day) ==
    Append(plans, [user_telegram_id |-> u, template_id |-> t.id,
                   principal_amount |-> principal_amount,
                   daily_rate |-> t.daily_rate,
                   start_date |-> day, end_date |-> day + t.duration_days,
                   last_interest_calc |-> NULL, interest_earned |-> 0,
                   status |-> "ACTIVE", is_locked |-> t.is_locked])

(* plan_callback: the entry point; it stores the chosen template *)
PlanCallback(u, t) ==
    /\ user_data[u].state = "END"
    /\ user_data' = [user_data EXCEPT ![u].selected_plan = t,
                                      ![u].state = "SAVINGS_AMOUNT"]
    /\ last' = Op("plan_callback", u, t, TRUE)
    /\ UNCHANGED <<is_connected, referrals, withdraw_conv, users, accounts, transactions, savings_plans,
                   daily_interest_logs, audit_logs, today>>

(* savings_amount: where the handler leaves the conversation.               *)
(*  - invalid amount, or below the template's minimum: asks again           *)
(*  - no account row: account['available_balance'] raises, state kept       *)
(*  - available_balance < amount: END                                       *)
(*  - otherwise savings_amount is stored; then line 2189 multiplies the     *)
(*    Decimal amount by the template's daily_rate, which the memory store   *)
(*    holds as a float (lines 749-758): TypeError, state kept               *)
savings_amount_next_in(connected, u, a) ==
    LET t == get_savings_templates[user_data[u].selected_plan]
    IN CASE ~validate_amount(a) -> "SAVINGS_AMOUNT"
         [] a < t.min_amount -> "SAVINGS_AMOUNT"
         [] u \notin DOMAIN accounts -> "raise"
         [] accounts[u].available_balance < a -> "END"
         [] ~connected -> "raise_after_store"
         [] OTHER -> "SAVINGS_CONFIRM"

(* Mutant: savings_amount without the test against the template's minimum *)
savings_amount_next_any_amount(u, a) ==
    CASE ~validate_amount(a) -> "SAVINGS_AMOUNT"
      [] u \notin DOMAIN accounts -> "raise"
      [] accounts[u].available_balance < a -> "END"
      [] ~is_connected -> "raise_after_store"
      [] OTHER -> "SAVINGS_CONFIRM"

(* savings_amount in the store the program runs on *)
savings_amount_next(u, a) == savings_amount_next_in(is_connected, u, a)

SavingsAmount(u, a) ==
    /\ user_data[u].state = "SAVINGS_AMOUNT"
    /\ LET n == savings_amount_next(u, a)
       IN /\ user_data' =
               [user_data EXCEPT
                  ![u].savings_amount =
                      IF n \in {"SAVINGS_CONFIRM", "raise_after_store"} THEN a ELSE @,
                  ![u].state =
                      IF n \in {"raise", "raise_after_store"} THEN "SAVINGS_AMOUNT" ELSE n]
          /\ last' = Op("savings_amount", u, a, n = "SAVINGS_CONFIRM")
    /\ UNCHANGED <<is_connected, referrals, withdraw_conv, users, accounts, transactions, savings_plans,
                   daily_interest_logs, audit_logs, today>>

(* savings_confirm, "cancel_savings": END, user_data is not cleared *)
SavingsCancel(u) ==
    /\ user_data[u].state = "SAVINGS_CONFIRM"
    /\ user_data' = [user_data EXCEPT ![u].state = "END"]
    /\ last' = Op("cancel_savings", u, 0, TRUE)
    /\ UNCHANGED <<is_connected, referrals, withdraw_conv, users, accounts, transactions, savings_plans,
                   daily_interest_logs, audit_logs, today>>

(* savings_confirm, "confirm_savings": the plan row is created first, then  *)
(* lock_funds is called for every template and its result is not looked at, *)
(* then a SAVINGS_CREATED transaction row and an audit row are written      *)
SavingsConfirm(u) ==
    /\ user_data[u].state = "SAVINGS_CONFIRM"
    /\ Len(savings_plans) < MaxPlans
    /\ Len(transactions) < MaxTx
    /\ Len(audit_logs) < MaxAudit
    /\ LET t == get_savings_templates[user_data[u].selected_plan]
           a == user_data[u].savings_amount
       IN /\ savings_plans' = create_savings_plan(savings_plans, u, t, a, today)
          /\ accounts' = lock_funds(accounts, u, a)[2]
          /\ transactions' = create_transaction(transactions, u, "SAVINGS_CREATED", a)
          /\ audit_logs' = log_audit(audit_logs, "SAVINGS_CREATED", "USER", u, NULL)
          /\ last' = Op("confirm_savings", u, a, TRUE)
    /\ user_data' = [user_data EXCEPT ![u] = NoData]
    /\ UNCHANGED <<is_connected, referrals, withdraw_conv, users, daily_interest_logs, today>>

----------------------------------------------------------------------------
(* Interest: DatabaseManager.calculate_and_add_interest and its two         *)
(* callers, show_user_dashboard and my_savings                              *)

(* Mutant: `date` imported next to datetime and timedelta *)
date_is_imported == TRUE

(* Whether the name `date` is bound when line 846 evaluates                 *)
(* isinstance(last_calc, date): line 16 imports only datetime and           *)
(* timedelta, and no other line binds it, so the lookup raises NameError.   *)
date_is_defined == FALSE

PlansOf(u) == {i \in DOMAIN savings_plans : savings_plans[i].user_telegram_id = u}

ActivePlansOf(u) == {i \in PlansOf(u) : savings_plans[i].status = "ACTIVE"}

(* Lines 841-850: the day the pass counts from, and the number of days *)
last_calc(p) ==
    IF p.last_interest_calc # NULL THEN p.last_interest_calc ELSE p.start_date

days_diff(p, day) == day - last_calc(p)

(* Lines 852-855: the calendar dates the pass credits for one plan *)
DueDates(p, day) ==
    {d \in (last_calc(p) + 1)..(last_calc(p) + days_diff(p, day)) :
        p.start_date <= d /\ d <= p.end_date}

(* Line 856: principal_amount * daily_rate, in 1/10000ths of a cent *)
daily_interest(p) == p.principal_amount * p.daily_rate

(* A DECIMAL(15,2) column rounds what is stored in it to whole cents *)
ToCents(x) == (x + 5000) \div 10000

(* Whether the pass ends in an exception before it returns.                 *)
(*  - NameError at line 846 for an ACTIVE plan whose last_interest_calc is  *)
(*    not set                                                               *)
(*  - TypeError at line 856 in the memory store, whose plans carry the      *)
(*    template's float daily_rate                                           *)
plan_raises_in(connected, i, day) ==
    \/ savings_plans[i].last_interest_calc = NULL /\ ~date_is_defined
    \/ ~connected /\ DueDates(savings_plans[i], day) # {}

(* ... in the store the program runs on *)
plan_raises(i, day) == plan_raises_in(is_connected, i, day)

(* The loop of lines 840-868 has no try/except of its own: the exception of *)
(* one plan leaves the method, whatever plans come after it                 *)
calc_raises(u, day) == \E i \in ActivePlansOf(u) : plan_raises(i, day)

RECURSIVE SumInterest(_, _)
SumInterest(S, day) ==
    IF S = {} THEN 0
    ELSE LET i == CHOOSE x \in S : TRUE
         IN Cardinality(DueDates(savings_plans[i], day)) * daily_interest(savings_plans[i])
            + SumInterest(S \ {i}, day)

(* total_interest, the value calculate_and_add_interest returns *)
total_interest(u, day) == SumInterest(ActivePlansOf(u), day)

(* The rows lines 860-867 insert for plan i, oldest date first *)
RECURSIVE PlanLogRows(_, _, _, _)
PlanLogRows(u, i, d, hi) ==
    IF d > hi THEN <<>>
    ELSE (IF d \in DueDates(savings_plans[i], hi)
          THEN <<[user_telegram_id |-> u, savings_plan_id |-> i,
                  calculation_date |-> d,
                  interest_amount |-> ToCents(daily_interest(savings_plans[i])),
                  is_applied |-> FALSE]>>
          ELSE <<>>) \o PlanLogRows(u, i, d + 1, hi)

(* ... for every ACTIVE plan of u, in the order of get_user_savings_plans   *)
(* (ORDER BY created_at DESC)                                               *)
RECURSIVE LogRows(_, _, _)
LogRows(u, i, day) ==
    IF i = 0 THEN <<>>
    ELSE (IF i \in ActivePlansOf(u) THEN PlanLogRows(u, i, 0, day) ELSE <<>>)
         \o LogRows(u, i - 1, day)

(* The body shared by show_user_dashboard (lines 1958-1970) and my_savings  *)
(* (lines 2017-2029): run the pass; when it returns a positive amount and   *)
(* the store is relational, add it to balance, available_balance and        *)
(* total_interest_earned                                                    *)
ApplyPendingInterest(name, u) ==
    IF calc_raises(u, today)
    THEN /\ UNCHANGED <<accounts, daily_interest_logs>>
         /\ last' = Op(name, u, 0, FALSE)
    ELSE LET pending_interest == total_interest(u, today)
             rows == IF is_connected THEN LogRows(u, Len(savings_plans), today) ELSE <<>>
         IN /\ Len(daily_interest_logs) + Len(rows) <= MaxLogs
            /\ RoomFor(u, ToCents(pending_interest))
            /\ daily_interest_logs' = daily_interest_logs \o rows
            /\ accounts' =
                 IF pending_interest > 0 /\ is_connected /\ u \in DOMAIN accounts
                 THEN [accounts EXCEPT
                         ![u].balance = @ + ToCents(pending_interest),
                         ![u].available_balance = @ + ToCents(pending_interest),
                         ![u].total_interest_earned = @ + ToCents(pending_interest)]
                 ELSE accounts
            /\ last' = Op(name, u, ToCents(pending_interest), TRUE)

(* /start for an APPROVED user *)
ShowUserDashboard(u) ==
    /\ u \in DOMAIN users /\ users[u].status = "APPROVED"
    /\ ApplyPendingInterest("show_user_dashboard", u)
    /\ UNCHANGED <<is_connected, referrals, withdraw_conv, users, transactions, savings_plans,
                   audit_logs, user_data, today>>

(* The "My Savings" button, refused unless the user is APPROVED *)
MySavings(u) ==
    /\ u \in DOMAIN users /\ users[u].status = "APPROVED"
    /\ ApplyPendingInterest("my_savings", u)
    /\ UNCHANGED <<is_connected, referrals, withdraw_conv, users, transactions, savings_plans,
                   audit_logs, user_data, today>>

(* A calendar day passes *)
Tick ==
    /\ today < MaxDay
    /\ today' = today + 1
    /\ last' = Op("tick", 0, 0, TRUE)
    /\ UNCHANGED <<is_connected, referrals, withdraw_conv, users, accounts, transactions, savings_plans,
                   daily_interest_logs, audit_logs, user_data>>

(* How long a user stays away between two visits, in days *)
DaySteps == {4}

(* The days between two updates of a user who stays away for a while: the  *)
(* handlers read the clock only when they run                               *)
DaysPass(n) ==
    /\ today + n <= LastDay
    /\ today' = today + n
    /\ last' = Op("tick", 0, 0, TRUE)
    /\ UNCHANGED <<is_connected, referrals, withdraw_conv, users, accounts, transactions, savings_plans,
                   daily_interest_logs, audit_logs, user_data>>

----------------------------------------------------------------------------
Next ==
    \/ \E u \in Users : RegisterEmail(u)
    \/ \E s \in Senders, k \in UserPayloads, u \in Users : AdminCallback(s, k, u)
    \/ \E s \in Senders, tx \in DOMAIN transactions :
          \E k \in TxButtons(transactions[tx]) : AdminCallback(s, k, tx)
    \/ \E u \in Users, a \in Amounts : Credit(u, a)
    \/ \E u \in Users, a \in Amounts : Debit(u, a)
    \/ \E u \in Users, a \in Amounts : LockFunds(u, a)
    \/ \E u \in Users, a \in Amounts : UnlockFunds(u, a)
    \/ \E u \in Users, a \in Amounts \cup {0} : DepositAmount(u, a)
    \/ \E u \in Users, a \in Amounts : CreateWithdraw(u, a)
    \/ \E tx \in 1..(Len(transactions) + 1), st \in TxStatuses, n \in Notes :
          UpdateTransactionStatus(tx, st, n)
    \/ \E u \in Users, t \in PlanChoices : PlanCallback(u, t)
    \/ \E u \in Users, a \in AmountInputs : SavingsAmount(u, a)
    \/ \E u \in Users : SavingsCancel(u)
    \/ \E u \in Users : SavingsConfirm(u)
    \/ \E u \in Users : ShowUserDashboard(u)
    \/ \E u \in Users : MySavings(u)
    \/ Tick

Spec == Init /\ [][Next]_vars

(* The ledger, the savings conversation and the pages, with the admin's     *)
(* Approve button that opens them to a user; the other buttons of           *)
(* admin_callback are taken in NextTx                                       *)
NextLedger ==
    \/ \E u \in Users : RegisterEmail(u)
    \/ \E s \in Senders, u \in Users : AdminCallback(s, "approve", u)
    \/ \E u \in Users, a \in Amounts : Credit(u, a)
    \/ \E u \in Users, a \in Amounts : Debit(u, a)
    \/ \E u \in Users, a \in Amounts : LockFunds(u, a)
    \/ \E u \in Users, a \in Amounts : UnlockFunds(u, a)
    \/ \E u \in Users, t \in PlanChoices : PlanCallback(u, t)
    \/ \E u \in Users, a \in AmountInputs : SavingsAmount(u, a)
    \/ \E u \in Users : SavingsCancel(u)
    \/ \E u \in Users : SavingsConfirm(u)
    \/ \E u \in Users : ShowUserDashboard(u)
    \/ \E u \in Users : MySavings(u)
    \/ Tick

SpecLedger == Init /\ [][NextLedger]_vars

NextTx ==
    \/ \E u \in Users : RegisterEmail(u)
    \/ \E s \in Senders, k \in UserPayloads, u \in Users : AdminCallback(s, k, u)
    \/ \E s \in Senders, tx \in DOMAIN transactions :
          \E k \in TxButtons(transactions[tx]) : AdminCallback(s, k, tx)
    \/ \E u \in Users, a \in Amounts : Credit(u, a)
    \/ \E u \in Users, a \in Amounts : Debit(u, a)
    \/ \E u \in Users, a \in Amounts \cup {0} : DepositAmount(u, a)
    \/ \E u \in Users, a \in Amounts : CreateWithdraw(u, a)
    \/ \E tx \in 1..(Len(transactions) + 1), st \in TxStatuses, n \in Notes :
          UpdateTransactionStatus(tx, st, n)

SpecTx == Init /\ [][NextTx]_vars

(* The amounts a caller or a user can hand in: the deposit credit with any  *)
(* amount, the deposit request and the savings conversation with any text   *)
NextAmounts ==
    \/ \E u \in Users : RegisterEmail(u)
    \/ \E s \in Senders, u \in Users : AdminCallback(s, "approve", u)
    \/ \E u \in Users, a \in CreditAmounts : Credit(u, a)
    \/ \E u \in Users, a \in TypedAmounts : DepositAmount(u, a)
    \/ \E u \in Users, t \in PlanChoices : PlanCallback(u, t)
    \/ \E u \in Users, a \in TypedAmounts : SavingsAmount(u, a)
    \/ \E u \in Users : SavingsCancel(u)
    \/ \E u \in Users : SavingsConfirm(u)

SpecAmounts == Init /\ [][NextAmounts]_vars

(* The life of a plan over its term: the plan is opened, days pass, the     *)
(* user comes back to the dashboard and to My Savings, and unlock_funds is  *)
(* there for whoever calls it.  The pages are taken whenever they would     *)
(* show something new, and time does not stop.                              *)
NextTerm ==
    \/ \E u \in Users : RegisterEmail(u)
    \/ \E u \in Users : AdminCallback(ADMIN_ID, "approve", u)
    \/ \E u \in Users, a \in Amounts : Credit(u, a)
    \/ \E u \in Users, a \in Amounts : UnlockFunds(u, a)
    \/ \E u \in Users, t \in PlanChoices : PlanCallback(u, t)
    \/ \E u \in Users, a \in Amounts : SavingsAmount(u, a)
    \/ \E u \in Users : SavingsConfirm(u)
    \/ \E u \in Users : ShowUserDashboard(u)
    \/ \E u \in Users : MySavings(u)
    \/ \E n \in DaySteps : DaysPass(n)

SpecTerm ==
    /\ Init /\ [][NextTerm]_vars
    /\ WF_vars(NextTerm)
    /\ \A u \in Users : WF_vars(ShowUserDashboard(u)) /\ WF_vars(MySavings(u))
    /\ \A u \in Users, a \in Amounts : WF_vars(UnlockFunds(u, a))
    /\ \A n \in DaySteps : WF_vars(DaysPass(n))

(* Referrals: the referred user and the referrer register, add_referral    *)
(* and process_referral_bonus are called as their signatures allow          *)
NextReferral ==
    \/ \E u \in Users \cup Referrers : RegisterEmail(u)
    \/ \E r \in Referrers, u \in Users : AddReferral(r, u)
    \/ \E u \in Users, f \in BOOLEAN : ProcessReferralBonus(u, f)

SpecReferral == Init /\ [][NextReferral]_vars

(* The admin's buttons, with users and requests waiting for a decision *)
NextAdmin ==
    \/ \E u \in Users : RegisterEmail(u)
    \/ \E s \in Senders, k \in UserPayloads, u \in Users : AdminCallback(s, k, u)
    \/ \E s \in Senders, tx \in DOMAIN transactions :
          \E k \in TxButtons(transactions[tx]) : AdminCallback(s, k, tx)
    \/ \E u \in Users, a \in Amounts : Credit(u, a)
    \/ \E u \in Users, a \in Amounts : DepositAmount(u, a)
    \/ \E u \in Users, a \in Amounts : CreateWithdraw(u, a)

SpecAdmin == Init /\ [][NextAdmin]_vars

(* The withdrawal conversation, for an approved user with money: the       *)
(* handlers a conversation reaches                                          *)
NextWithdraw ==
    \/ \E u \in Users : RegisterEmail(u)
    \/ \E u \in Users : AdminCallback(ADMIN_ID, "approve", u)
    \/ \E u \in Users, a \in Amounts : Credit(u, a)
    \/ \E u \in Users : Withdraw(u)
    \/ \E u \in Users, a \in TypedAmounts : WithdrawAmount(u, a)
    \/ \E u \in Users : WithdrawCancel(u)
    \/ \E u \in Users, otp \in OtpInputs : VerifyOtpCommand(u, otp)

SpecWithdraw == Init /\ [][NextWithdraw]_vars

(* The same with the handlers of the later states, which stay disabled:    *)
(* WithdrawConvStaysAtAmount is an invariant of it                          *)
NextWithdrawConv ==
    \/ NextWithdraw
    \/ \E u \in Users, otp \in OtpInputs : WithdrawOtp(u, otp)
    \/ \E u \in Users, m \in WithdrawMethods : WithdrawMethodCallback(u, m)
    \/ \E u \in Users, ok \in BOOLEAN : WithdrawAddress(u, ok)

SpecWithdrawConv == Init /\ [][NextWithdrawConv]_vars

(* Registration up to the admin's decision: the code sent at registration, *)
(* /verify, the expiry of the code, and the admin's buttons                 *)
NextOtp ==
    \/ \E u \in Users : RegisterEmail(u)
    \/ \E u \in Users, otp \in OtpInputs : VerifyOtpCommand(u, otp)
    \/ \E u \in Users : OtpExpires(u)
    \/ \E s \in Senders, k \in UserPayloads, u \in Users : AdminCallback(s, k, u)

SpecOtp == Init /\ [][NextOtp]_vars

----------------------------------------------------------------------------
(* The claims *)

C2_NoOverdraft ==
    [][\A u \in DOMAIN accounts : \A a \in Amounts :
          (Debit(u, a) \/ LockFunds(u, a)) =>
             /\ accounts'[u].available_balance >= 0
             /\ accounts' # accounts =>
                  /\ accounts[u].available_balance >= a
                  /\ accounts'[u].available_balance =
                       accounts[u].available_balance - a]_vars

(* A debit refused because an earlier lock had taken the funds it asked for *)
C2_Witness ==
    /\ last.op = "debit" /\ ~last.ok
    /\ last.user \in DOMAIN accounts
    /\ accounts[last.user].available_balance < last.arg
    /\ accounts[last.user].locked_balance >= last.arg

C4_TransactionTerminal ==
    [][\A tx \in DOMAIN transactions :
          transactions[tx].status \in {"APPROVED", "REJECTED"} =>
              transactions'[tx] = transactions[tx]]_vars

(* C5: a withdrawal debit never changes locked_balance, and when it takes   *)
(* effect it takes exactly its amount from balance and available_balance,   *)
(* which held at least that amount.                                         *)
C5_LockedPrincipalProtected ==
    [][\A u \in DOMAIN accounts : \A a \in Amounts :
          Debit(u, a) =>
             /\ accounts'[u].locked_balance = accounts[u].locked_balance
             /\ accounts' # accounts =>
                  /\ a <= accounts[u].available_balance
                  /\ accounts'[u].available_balance =
                       accounts[u].available_balance - a
                  /\ accounts'[u].balance = accounts[u].balance - a]_vars

(* A debit of the principal of an ACTIVE locked plan was refused: the       *)
(* principal is in locked_balance and the account's balance covers it.      *)
C5_Witness ==
    /\ last.op = "debit" /\ ~last.ok
    /\ \E i \in ActivePlansOf(last.user) :
          /\ savings_plans[i].is_locked
          /\ savings_plans[i].principal_amount = last.arg
          /\ accounts[last.user].locked_balance >= last.arg
          /\ accounts[last.user].balance >= last.arg

(* C6: a deposit request of amount a creates a PENDING DEPOSIT transaction  *)
(* and leaves the account alone; the admin's confirmation of a PENDING      *)
(* deposit adds a to balance and available_balance and leaves the           *)
(* transaction APPROVED.                                                    *)
C6_DepositApproval ==
    [][/\ \A u \in Users : \A a \in Amounts :
             DepositAmount(u, a) =>
                /\ transactions' =
                     Append(transactions,
                            [user_telegram_id |-> u, type |-> "DEPOSIT",
                             amount |-> a, status |-> "PENDING",
                             reviewed_by |-> NULL, admin_note |-> ""])
                /\ accounts' = accounts
       /\ \A tx \in DOMAIN transactions :
             /\ transactions[tx].type = "DEPOSIT"
             /\ transactions[tx].status = "PENDING"
             /\ AdminCallback(ADMIN_ID, "confirm_deposit", tx)
             => LET u == transactions[tx].user_telegram_id
                    a == transactions[tx].amount
                IN /\ accounts'[u].balance = accounts[u].balance + a
                   /\ accounts'[u].available_balance =
                        accounts[u].available_balance + a
                   /\ transactions'[tx].status = "APPROVED"]_vars

(* C7: the admin's approval of a PENDING WITHDRAW whose amount exceeds the  *)
(* account's available_balance leaves it REJECTED, reports the refusal and  *)
(* changes no balance.                                                      *)
C7_WithdrawOverAvailableRejected ==
    [][\A tx \in DOMAIN transactions :
          /\ transactions[tx].type = "WITHDRAW"
          /\ transactions[tx].status = "PENDING"
          /\ transactions[tx].user_telegram_id \in DOMAIN accounts
          /\ transactions[tx].amount >
               accounts[transactions[tx].user_telegram_id].available_balance
          /\ AdminCallback(ADMIN_ID, "approve_withdraw", tx)
          => /\ transactions'[tx].status = "REJECTED"
             /\ transactions'[tx].reviewed_by = ADMIN_ID
             /\ accounts' = accounts]_vars

(* C8: in every committed state a DEPOSIT or WITHDRAW transaction is        *)
(* APPROVED iff its amount has been applied to its account exactly once:    *)
(* total_deposits is the sum of the APPROVED deposits of the account and    *)
(* total_withdrawals the sum of its APPROVED withdrawals.                   *)
C8_StatusAndBalanceAtomic ==
    \A u \in DOMAIN accounts :
        LET Applied[i \in 0..Len(transactions)] ==
                IF i = 0 THEN [DEPOSIT |-> 0, WITHDRAW |-> 0]
                ELSE LET t == transactions[i]
                     IN IF /\ t.user_telegram_id = u
                           /\ t.status = "APPROVED"
                           /\ t.type \in {"DEPOSIT", "WITHDRAW"}
                        THEN [Applied[i - 1] EXCEPT ![t.type] = @ + t.amount]
                        ELSE Applied[i - 1]
            sums == Applied[Len(transactions)]
        IN /\ accounts[u].total_deposits = sums.DEPOSIT
           /\ accounts[u].total_withdrawals = sums.WITHDRAW

(* C9: an interest pass writes one accrual record for every date of an      *)
(* ACTIVE plan's term that has passed without one, and credits the account  *)
(* one daily interest amount for each of them.                              *)
C9_CatchUp ==
    [][\A u \in Users :
          ShowUserDashboard(u) \/ MySavings(u) =>
             LET Recorded(logs, i, d) ==
                     {n \in DOMAIN logs : /\ logs[n].savings_plan_id = i
                                          /\ logs[n].calculation_date = d}
                 Missed(i) ==
                     {d \in (savings_plans[i].start_date + 1)..today :
                         /\ d <= savings_plans[i].end_date
                         /\ Recorded(daily_interest_logs, i, d) = {}}
                 Owed[i \in 0..Len(savings_plans)] ==
                     IF i = 0 THEN 0
                     ELSE Owed[i - 1] +
                          (IF i \in ActivePlansOf(u)
                           THEN Cardinality(Missed(i)) *
                                ToCents(daily_interest(savings_plans[i]))
                           ELSE 0)
             IN /\ \A i \in ActivePlansOf(u) : \A d \in Missed(i) :
                      Cardinality(Recorded(daily_interest_logs', i, d)) = 1
                /\ accounts'[u].balance =
                     accounts[u].balance + Owed[Len(savings_plans)]
                /\ accounts'[u].total_interest_earned =
                     accounts[u].total_interest_earned + Owed[Len(savings_plans)]]_vars

(* C12: the pass that follows a pass that died leaves every due day of      *)
(* every ACTIVE plan of the user recorded exactly once, and the account      *)
(* credited with exactly what is recorded for it.                            *)
C12_Resumable ==
    [][\A u \in Users :
          /\ last.op \in Pages /\ ~last.ok /\ last.user = u
          /\ ShowUserDashboard(u) \/ MySavings(u)
          => /\ \A i \in ActivePlansOf(u) :
                   \A d \in (savings_plans[i].start_date + 1)..today :
                      d <= savings_plans[i].end_date =>
                         Cardinality({n \in DOMAIN daily_interest_logs' :
                            /\ daily_interest_logs'[n].savings_plan_id = i
                            /\ daily_interest_logs'[n].calculation_date = d}) = 1
             /\ LET logs == daily_interest_logs'
                    Recorded[n \in 0..Len(logs)] ==
                        IF n = 0 THEN 0
                        ELSE Recorded[n - 1] +
                             (IF logs[n].user_telegram_id = u
                              THEN logs[n].interest_amount ELSE 0)
                IN accounts'[u].total_interest_earned = Recorded[Len(logs)]]_vars

(* C14: confirming a plan of principal P on a locked template moves P from  *)
(* available_balance to locked_balance and leaves balance alone; on a        *)
(* template that is not locked it changes no account.                        *)
C14_OpenPlanMovesFundsOnlyWhenLocked ==
    [][\A u \in Users :
          /\ SavingsConfirm(u)
          /\ u \in DOMAIN accounts
          /\ accounts[u].available_balance >= user_data[u].savings_amount
          => LET t == get_savings_templates[user_data[u].selected_plan]
                 P == user_data[u].savings_amount
             IN IF t.is_locked
                THEN /\ accounts'[u].available_balance =
                          accounts[u].available_balance - P
                     /\ accounts'[u].locked_balance =
                          accounts[u].locked_balance + P
                     /\ accounts'[u].balance = accounts[u].balance
                ELSE accounts' = accounts]_vars

(* C15: a confirmation that finds available_balance below the principal     *)
(* creates no plan and changes no account.                                   *)
C15_OpenPlanInsufficientFunds ==
    [][\A u \in Users :
          /\ SavingsConfirm(u)
          /\ u \in DOMAIN accounts
          /\ accounts[u].available_balance < user_data[u].savings_amount
          => /\ savings_plans' = savings_plans
             /\ accounts' = accounts]_vars

(* C16: a pass that runs when the term of an ACTIVE plan is over leaves the *)
(* plan with one accrual record for each of its D days, each of P*r, and     *)
(* interest_earned = P*r*D.                                                  *)
C16_WholeTermInterest ==
    [][\A u \in Users :
          ShowUserDashboard(u) \/ MySavings(u) =>
             \A i \in ActivePlansOf(u) :
                today >= savings_plans[i].end_date =>
                   LET p == savings_plans[i]
                       D == p.end_date - p.start_date
                       rows == {n \in DOMAIN daily_interest_logs' :
                                  daily_interest_logs'[n].savings_plan_id = i}
                   IN /\ Cardinality(rows) = D
                      /\ \A n \in rows :
                            daily_interest_logs'[n].interest_amount =
                               ToCents(daily_interest(p))
                      /\ savings_plans'[i].interest_earned =
                            D * ToCents(daily_interest(p))]_vars

(* C17: the release of the principal of an ACTIVE locked plan moves that   *)
(* principal from locked_balance to available_balance, credits no interest  *)
(* and leaves the plan MATURED.                                              *)
C17_MaturityReleasesPrincipal ==
    [][\A u \in Users : \A i \in ActivePlansOf(u) :
          /\ savings_plans[i].is_locked
          /\ UnlockFunds(u, savings_plans[i].principal_amount)
          /\ accounts' # accounts
          => /\ accounts'[u].locked_balance =
                  accounts[u].locked_balance - savings_plans[i].principal_amount
             /\ accounts'[u].available_balance =
                  accounts[u].available_balance + savings_plans[i].principal_amount
             /\ accounts'[u].total_interest_earned =
                  accounts[u].total_interest_earned
             /\ savings_plans'[i].status = "MATURED"]_vars

(* C18: the admin's rejection of a PENDING deposit or withdrawal leaves it  *)
(* REJECTED, adds one audit entry and changes no account.                    *)
C18_RejectHasNoBalanceEffect ==
    [][\A tx \in DOMAIN transactions :
          /\ transactions[tx].status = "PENDING"
          /\ \E k \in TxButtons(transactions[tx]) \cap
                        {"reject_deposit", "reject_withdraw"} :
                AdminCallback(ADMIN_ID, k, tx)
          => /\ transactions'[tx].status = "REJECTED"
             /\ Len(audit_logs') = Len(audit_logs) + 1
             /\ accounts' = accounts]_vars

(* C19: creating a WITHDRAW request adds one PENDING transaction and        *)
(* changes no account.                                                       *)
C19_WithdrawRequestReservesNothing ==
    [][\A u \in Users : \A a \in Amounts :
          CreateWithdraw(u, a) =>
             /\ transactions' =
                  Append(transactions,
                         [user_telegram_id |-> u, type |-> "WITHDRAW",
                          amount |-> a, status |-> "PENDING",
                          reviewed_by |-> NULL, admin_note |-> ""])
             /\ accounts' = accounts]_vars

(* Two PENDING withdrawals of one user, each within available_balance,      *)
(* together above it.                                                        *)
C19_Witness ==
    \E t1 \in DOMAIN transactions : \E t2 \in DOMAIN transactions \ {t1} :
        LET u == transactions[t1].user_telegram_id
        IN /\ transactions[t2].user_telegram_id = u
           /\ u \in DOMAIN accounts
           /\ \A t \in {t1, t2} :
                 /\ transactions[t].type = "WITHDRAW"
                 /\ transactions[t].status = "PENDING"
                 /\ transactions[t].amount <= accounts[u].available_balance
           /\ transactions[t1].amount + transactions[t2].amount >
                 accounts[u].available_balance

(* C20: of two PENDING withdrawals of one user, each within                 *)
(* available_balance and together above it, the one the admin approves      *)
(* first ends APPROVED and is debited; an approval that then finds less      *)
(* than its amount available ends REJECTED and changes no account;           *)
(* available_balance is never negative.                                      *)
C20_FirstApprovedWins ==
    [][\A t1 \in DOMAIN transactions : \A t2 \in DOMAIN transactions \ {t1} :
          LET u == transactions[t1].user_telegram_id
              a == transactions[t1].amount
              b == transactions[t2].amount
          IN /\ transactions[t2].user_telegram_id = u
             /\ u \in DOMAIN accounts
             /\ transactions[t1].type = "WITHDRAW"
             /\ transactions[t2].type = "WITHDRAW"
             /\ transactions[t1].status = "PENDING"
             /\ AdminCallback(ADMIN_ID, "approve_withdraw", t1)
             => /\ accounts'[u].available_balance >= 0
                /\ /\ transactions[t2].status = "PENDING"
                   /\ a <= accounts[u].available_balance
                   /\ b <= accounts[u].available_balance
                   /\ a + b > accounts[u].available_balance
                   => /\ transactions'[t1].status = "APPROVED"
                      /\ accounts'[u].available_balance =
                           accounts[u].available_balance - a
                      /\ accounts'[u].balance = accounts[u].balance - a
                /\ /\ transactions[t2].status = "APPROVED"
                   /\ accounts[u].total_withdrawals >= b
                   /\ a > accounts[u].available_balance
                   => /\ transactions'[t1].status = "REJECTED"
                      /\ accounts' = accounts]_vars

(* C21: in every reachable state every account's balance is its           *)
(* total_deposits minus its total_withdrawals plus its                      *)
(* total_interest_earned.                                                    *)
C21_MoneyConserved ==
    \A u \in DOMAIN accounts :
        accounts[u].balance =
            accounts[u].total_deposits - accounts[u].total_withdrawals
              + accounts[u].total_interest_earned

(* C23: when the processing of one ACTIVE plan fails during a pass, the     *)
(* pass still writes an accrual record for every date owed to each other    *)
(* ACTIVE plan of the batch and credits the account for them.               *)
C23_BadPlanDoesNotBlockOthers ==
    [][\A u \in Users :
          ShowUserDashboard(u) \/ MySavings(u) =>
             \A bad \in ActivePlansOf(u) :
                plan_raises(bad, today) =>
                   LET Others == ActivePlansOf(u) \ {bad}
                       Recorded(logs, i, d) ==
                           {n \in DOMAIN logs : /\ logs[n].savings_plan_id = i
                                                /\ logs[n].calculation_date = d}
                       Owed(i) ==
                           {d \in (savings_plans[i].start_date + 1)..today :
                               /\ d <= savings_plans[i].end_date
                               /\ Recorded(daily_interest_logs, i, d) = {}}
                   IN /\ \A i \in Others : \A d \in Owed(i) :
                            Recorded(daily_interest_logs', i, d) # {}
                      /\ (\E i \in Others : Owed(i) # {}) =>
                            accounts'[u].total_interest_earned >
                               accounts[u].total_interest_earned]_vars

(* C24: every step that changes a field of an account, decides a            *)
(* transaction or opens a plan adds exactly one entry to the audit log.     *)
C24_EveryChangeAudited ==
    [][(\/ \E u \in DOMAIN accounts : accounts'[u] # accounts[u]
        \/ \E i \in DOMAIN transactions :
              transactions'[i].status # transactions[i].status
        \/ Len(savings_plans') > Len(savings_plans))
       => Len(audit_logs') = Len(audit_logs) + 1]_vars

(* C25: every step leaves the audit log it found as a prefix of the audit   *)
(* log it produces: entries are only added at the end, and none is          *)
(* changed or removed.                                                      *)
C25_AuditAppendOnly ==
    [][/\ Len(audit_logs') >= Len(audit_logs)
       /\ SubSeq(audit_logs', 1, Len(audit_logs)) = audit_logs]_vars

(* An entry was appended after a different one: a user was approved and     *)
(* then rejected, or a request was logged after a decision                  *)
C25_Witness ==
    /\ Len(audit_logs) >= 2
    /\ audit_logs[Len(audit_logs)] # audit_logs[1]

(* C26: a debit or a lock of more than available_balance, an unlock of      *)
(* more than locked_balance, and any of the three for a user without an     *)
(* account, returns failure and leaves every account as it was; a debit     *)
(* that succeeds takes the amount off balance and available_balance, a      *)
(* lock moves it from available_balance to locked_balance and an unlock     *)
(* moves it back.                                                           *)
C26_FailedLedgerOpChangesNothing ==
    [][\A u \in Users, a \in Amounts :
          LET known == u \in DOMAIN accounts
              Refused(name) ==
                  /\ accounts' = accounts
                  /\ last' = [op |-> name, user |-> u, arg |-> a, ok |-> FALSE]
              Moved(db, da, dl) ==
                  /\ last'.ok
                  /\ accounts'[u].balance = accounts[u].balance + db
                  /\ accounts'[u].available_balance =
                        accounts[u].available_balance + da
                  /\ accounts'[u].locked_balance = accounts[u].locked_balance + dl
                  /\ \A v \in DOMAIN accounts \ {u} : accounts'[v] = accounts[v]
          IN /\ Debit(u, a) =>
                  IF known /\ accounts[u].available_balance >= a
                  THEN Moved(0 - a, 0 - a, 0) ELSE Refused("debit")
             /\ LockFunds(u, a) =>
                  IF known /\ accounts[u].available_balance >= a
                  THEN Moved(0, 0 - a, a) ELSE Refused("lock")
             /\ UnlockFunds(u, a) =>
                  IF known /\ accounts[u].locked_balance >= a
                  THEN Moved(0, a, 0 - a) ELSE Refused("unlock")]_vars

(* An unlock was refused for an account that holds the amount, but not as   *)
(* locked funds                                                             *)
C26_Witness ==
    /\ last.op = "unlock" /\ ~last.ok
    /\ last.user \in DOMAIN accounts
    /\ accounts[last.user].locked_balance < last.arg
    /\ accounts[last.user].available_balance >= last.arg

(* C27: no step leaves a transaction or a savings plan whose amount is not  *)
(* positive or is over the cap of 1,000,000.00, and a deposit credit        *)
(* called with an amount <= 0 returns failure and changes no account.       *)
C27_InvalidAmountRejected ==
    [][/\ \A i \in DOMAIN transactions' : validate_amount(transactions'[i].amount)
       /\ \A i \in DOMAIN savings_plans' :
             validate_amount(savings_plans'[i].principal_amount)
       /\ \A u \in Users, a \in CreditAmounts :
             a <= 0 /\ Credit(u, a) => accounts' = accounts /\ ~last'.ok]_vars

(* C28: after every step each savings plan has a principal_amount of at     *)
(* least the min_amount of its template, and an amount below the minimum    *)
(* of the chosen template, typed into the savings conversation, creates no  *)
(* plan, changes no account and is not offered for confirmation.             *)
C28_PrincipalAtLeastMinimum ==
    [][/\ \A i \in DOMAIN savings_plans' :
             savings_plans'[i].principal_amount >=
                get_savings_templates[savings_plans'[i].template_id].min_amount
       /\ \A u \in Users, a \in TypedAmounts :
             /\ SavingsAmount(u, a)
             /\ a < get_savings_templates[user_data[u].selected_plan].min_amount
             => /\ savings_plans' = savings_plans
                /\ accounts' = accounts
                /\ user_data'[u].state # "SAVINGS_CONFIRM"]_vars

(* A user who holds a plan and still has 500.00 available asks for          *)
(* template 2 with 500.00, which template 1 accepts, and is asked again     *)
C28_Witness ==
    /\ last.op = "savings_amount" /\ ~last.ok
    /\ user_data[last.user].state = "SAVINGS_AMOUNT"
    /\ validate_amount(last.arg)
    /\ last.arg < get_savings_templates[user_data[last.user].selected_plan].min_amount
    /\ last.arg >= get_savings_templates[1].min_amount
    /\ last.user \in DOMAIN accounts
    /\ accounts[last.user].available_balance >= last.arg
    /\ savings_plans # <<>>

(* C31: in every reachable state each account's locked_balance is the sum   *)
(* of principal_amount over its user's ACTIVE plans with is_locked set.     *)
C31_LockedBalanceIsLockedPrincipal ==
    \A u \in DOMAIN accounts :
        LET LockedPrincipal[i \in 0..Len(savings_plans)] ==
                IF i = 0 THEN 0
                ELSE LockedPrincipal[i - 1] +
                     (IF i \in ActivePlansOf(u) /\ savings_plans[i].is_locked
                      THEN savings_plans[i].principal_amount ELSE 0)
        IN accounts[u].locked_balance = LockedPrincipal[Len(savings_plans)]

(* C32: a locked ACTIVE plan whose end_date has passed is eventually        *)
(* MATURED with its principal no longer in locked_balance.                  *)
C32_LockedPrincipalEventuallyReleased ==
    \A i \in 1..MaxPlans :
        (/\ i \in DOMAIN savings_plans
         /\ savings_plans[i].is_locked
         /\ savings_plans[i].status = "ACTIVE"
         /\ savings_plans[i].end_date < today)
        ~> (/\ i \in DOMAIN savings_plans
            /\ savings_plans[i].status = "MATURED"
            /\ accounts[savings_plans[i].user_telegram_id].available_balance >=
                  savings_plans[i].principal_amount)

(* C33: in every reachable state the registration bonuses an account has    *)
(* received (its balance less what deposits, withdrawals and interest       *)
(* account for) amount to at most one REGISTRATION_BONUS, and to exactly    *)
(* one when the user is APPROVED.                                           *)
C33_RegistrationBonusOnce ==
    \A u \in DOMAIN accounts :
        LET bonuses == accounts[u].balance - accounts[u].total_deposits
                         + accounts[u].total_withdrawals
                         - accounts[u].total_interest_earned
        IN /\ bonuses \in {0, REGISTRATION_BONUS}
           /\ users[u].status = "APPROVED" => bonuses = REGISTRATION_BONUS

(* C34: a call of process_referral_bonus for a referred user whose          *)
(* referral is marked paid returns False and changes no account; a call     *)
(* that credits a referrer credits one REFERRAL_BONUS and leaves that       *)
(* referral marked paid, whether or not the call fails on its way.          *)
C34_ReferralBonusOnce ==
    [][\A u \in Users, f \in BOOLEAN :
          ProcessReferralBonus(u, f) =>
             /\ (ReferralsOf(u) # {} /\ UnpaidReferralsOf(u) = {})
                   => accounts' = accounts /\ ~last'.ok
             /\ \A k \in ReferralsOf(u) :
                   k[1] \in DOMAIN accounts /\ accounts'[k[1]] # accounts[k[1]]
                   => /\ referrals'[k].bonus_paid
                      /\ accounts'[k[1]].balance =
                            accounts[k[1]].balance + REFERRAL_BONUS]_vars

(* C35: a user's status changes only while it is PENDING: no step turns an  *)
(* APPROVED or a REJECTED user into anything else.                          *)
C35_UserStatusTerminal ==
    [][\A u \in DOMAIN users :
          users[u].status # "PENDING" => users'[u].status = users[u].status]_vars

(* C36: /verify succeeds only with the stored code before its expiry; a     *)
(* success marks the email verified and clears the code, and no             *)
(* verification succeeds while no code is stored; a failed verification     *)
(* changes no user row.                                                     *)
C36_OtpSingleUse ==
    [][\A u \in Users, otp \in OtpInputs :
          VerifyOtpCommand(u, otp) =>
             IF last'.ok
             THEN /\ u \in DOMAIN users
                  /\ users[u].otp_code # NULL
                  /\ users[u].otp_code = otp
                  /\ ~users[u].otp_expired
                  /\ users'[u].is_email_verified
                  /\ users'[u].otp_code = NULL
             ELSE users' = users]_vars

(* A code was used, and the same code was then typed again and refused *)
C36_Witness ==
    /\ last.op = "verify" /\ ~last.ok
    /\ last.arg \in generate_otp
    /\ last.user \in DOMAIN users
    /\ users[last.user].is_email_verified
    /\ users[last.user].otp_code = NULL

C38_OnlyAdminDecides ==
    [][\A s \in Senders \ {ADMIN_ID}, k \in UserPayloads \cup TxPayloads,
         t \in Users \cup DOMAIN transactions :
          AdminCallback(s, k, t) =>
             /\ users' = users
             /\ transactions' = transactions
             /\ accounts' = accounts]_vars

(* A user has had a callback refused while a user and a transaction were    *)
(* both waiting for the admin's decision.                                   *)
C38_Witness ==
    /\ last.op = "unauthorized"
    /\ \E u \in DOMAIN users : users[u].status = "PENDING"
    /\ \E tx \in DOMAIN transactions : transactions[tx].status = "PENDING"

(* C39: a WITHDRAW row is created only by the last step of a withdrawal    *)
(* conversation and with the amount entered in it; the conversation moves   *)
(* only WITHDRAW_AMOUNT -> WITHDRAW_OTP -> WITHDRAW_METHOD ->               *)
(* WITHDRAW_ADDRESS (or ends); an amount that is valid and within           *)
(* available_balance moves it to WITHDRAW_OTP and any other amount does     *)
(* not; a wrong code keeps it in WITHDRAW_OTP and creates no transaction.   *)
C39_WithdrawOnlyAfterOtp ==
    [][\A u \in Users :
          LET s == withdraw_conv[u].state
              t == withdraw_conv'[u].state
          IN /\ \A tx \in DOMAIN transactions' \ DOMAIN transactions :
                   /\ transactions'[tx].type = "WITHDRAW"
                   /\ transactions'[tx].user_telegram_id = u
                   => /\ s = "WITHDRAW_ADDRESS"
                      /\ transactions'[tx].amount = withdraw_conv[u].withdraw_amount
             /\ \/ t = s
                \/ t = "END"
                \/ <<s, t>> \in {<<"END", "WITHDRAW_AMOUNT">>,
                                 <<"WITHDRAW_AMOUNT", "WITHDRAW_OTP">>,
                                 <<"WITHDRAW_OTP", "WITHDRAW_METHOD">>,
                                 <<"WITHDRAW_METHOD", "WITHDRAW_ADDRESS">>}
             /\ \A a \in TypedAmounts :
                   WithdrawAmount(u, a) =>
                      IF validate_amount(a) /\ a <= accounts[u].available_balance
                      THEN t = "WITHDRAW_OTP"
                      ELSE t = "WITHDRAW_AMOUNT"
             /\ \A otp \in OtpInputs :
                   WithdrawOtp(u, otp) /\ otp # users[u].otp_code
                   => t = "WITHDRAW_OTP" /\ transactions' = transactions]_vars

(* The withdrawal conversation is never past its first question *)
WithdrawConvStaysAtAmount ==
    \A u \in Users : withdraw_conv[u].state \in {"END", "WITHDRAW_AMOUNT"}

(* and it creates no WITHDRAW row *)
NoWithdrawRowFromConversation ==
    \A tx \in DOMAIN transactions : transactions[tx].type # "WITHDRAW"

(* What one accrual pass and the page around it do for user u in a store:   *)
(* whether the pass raises, what it returns, and what the page credits      *)
(* (lines 1961 and 2020: only `if pending_interest > 0 and db.is_connected`) *)
pass_in(connected, u, day) ==
    IF \E i \in ActivePlansOf(u) : plan_raises_in(connected, i, day)
    THEN <<"raise", 0, 0>>
    ELSE <<"ok", ToCents(total_interest(u, day)),
           IF total_interest(u, day) > 0 /\ connected
           THEN ToCents(total_interest(u, day)) ELSE 0>>

(* C40: the memory store and the relational store answer every operation    *)
(* alike.  create_user, update_balance, lock_funds, unlock_funds and the     *)
(* bonus credits are one definition for both stores; what is left to        *)
(* compare, in every reachable state and for every input, is where the      *)
(* plan conversation goes when an amount is typed and what an accrual pass  *)
(* returns and credits.                                                     *)
C40_StoresAgree ==
    \A u \in Users :
       /\ user_data[u].state = "SAVINGS_AMOUNT"
          => \A a \in TypedAmounts :
                savings_amount_next_in(TRUE, u, a) = savings_amount_next_in(FALSE, u, a)
       /\ pass_in(TRUE, u, today) = pass_in(FALSE, u, today)
====
